---- MODULE Spec2Model ----
(***************************************************************************)
(* Model of the query-matching engine of the Farm-advisor knowledge base  *)
(* (src/backend/models/knowledge_base.py, class KnowledgeBase).            *)
(*                                                                         *)
(* A text is a sequence of characters.  The characters are those of the    *)
(* built-in knowledge base plus representatives of every character class   *)
(* that normalize_text distinguishes.                                      *)
(***************************************************************************)
EXTENDS Integers, Sequences, FiniteSets, TLC

(***************************************************************************)
(* Characters.  A character is named by itself when it is an ASCII letter, *)
(* the blank or "!", and by its code point ("u093e") otherwise.            *)
(***************************************************************************)
\* Latin small letters (category Ll): matched by \w, fixed by str.lower()
LatinLower ==
    {"a", "b", "c", "d", "e", "f", "g", "h", "i", "j", "k", "l", "m",
     "n", "o", "p", "q", "r", "s", "t", "u", "v", "w", "x", "y", "z"}

\* Latin capital letters (category Lu): matched by \w, changed by str.lower()
LatinUpper == {"A", "H"}

\* Devanagari letters (category Lo): matched by \w, caseless
DevanagariLetters ==
    {"u0906", "u0907", "u0909", "u090f", "u0915", "u0916", "u0917", "u091a",
     "u091c", "u091f", "u0923", "u0924", "u0926", "u0927", "u0928", "u092a",
     "u092b", "u092c", "u092d", "u092e", "u092f", "u0930", "u0932", "u0935",
     "u0936", "u0937", "u0938", "u0939"}

\* precomposed letters: U+00E1 (a + U+0301) and U+00C1 (A + U+0301)
Precomposed == {"u00e1", "u00c1"}

\* Greek sigmas: U+03A3 capital sigma, U+03C3 small sigma, U+03C2 small
\* final sigma, and the lunate sigma symbols U+03F9 (capital) and U+03F2
\* (small), whose compatibility decompositions are U+03A3 and U+03C2
GreekSigmas == {"u03a3", "u03c3", "u03c2", "u03f9", "u03f2"}

\* characters matched by \w
WordChars ==
    LatinLower \cup LatinUpper \cup DevanagariLetters \cup Precomposed
    \cup GreekSigmas

\* characters matched by \s: the blank and the tab
SpaceChars == {" ", "u0009"}

\* marks with a non-zero canonical combining class: U+0301 COMBINING ACUTE
\* ACCENT (230) and U+094D DEVANAGARI SIGN VIRAMA (9)
CombiningChars == {"u0301", "u094d"}

\* characters matched by neither \w nor \s whose combining class is 0:
\* punctuation, and the Devanagari anusvara and vowel signs (Mn and Mc)
SignChars ==
    {"!", "u0902", "u093e", "u093f", "u0940", "u0941", "u0942", "u0947",
     "u0948", "u094b", "u094c"}

\* unicodedata.normalize('NFKD', c) for one character
Decomposition(c) ==
    IF c = "u00e1" THEN <<"a", "u0301">>
    ELSE IF c = "u00c1" THEN <<"A", "u0301">>
    ELSE IF c = "u03f9" THEN <<"u03a3">>
    ELSE IF c = "u03f2" THEN <<"u03c2">>
    ELSE <<c>>

\* unicodedata.combining(c) # 0
combining(c) == c \in CombiningChars

\* re \s
IsSpace(c) == c \in SpaceChars

\* re \w
IsWord(c) == c \in WordChars

\* str.lower() for one character, taken by itself
LowerChar(c) ==
    IF c = "A" THEN "a"
    ELSE IF c = "H" THEN "h"
    ELSE IF c = "u00c1" THEN "u00e1"
    ELSE IF c = "u03a3" THEN "u03c3"
    ELSE IF c = "u03f9" THEN "u03f2"
    ELSE c

\* the characters str.lower() counts as cased, and those it skips when it
\* looks for a cased neighbour (category Mn here; the Mc vowel signs are not)
Cased == LatinLower \cup LatinUpper \cup Precomposed \cup GreekSigmas

CaseIgnorable ==
    CombiningChars \cup {"u0902", "u0941", "u0942", "u0947", "u0948"}

\* a capital sigma at position i is in final position: a cased character
\* precedes it and none follows it, case-ignorable characters skipped
FinalSigma(text, i) ==
    /\ \E j \in 1..(i - 1) :
          /\ text[j] \in Cased
          /\ \A k \in (j + 1)..(i - 1) : text[k] \in CaseIgnorable
    /\ ~\E j \in (i + 1)..Len(text) :
          /\ text[j] \in Cased
          /\ \A k \in (i + 1)..(j - 1) : text[k] \in CaseIgnorable

(***************************************************************************)
(* Text helpers                                                            *)
(***************************************************************************)
RECURSIVE Flatten(_)
Flatten(ss) ==
    IF ss = <<>> THEN <<>> ELSE Head(ss) \o Flatten(Tail(ss))

\* unicodedata.normalize('NFKD', text)
NFKD(text) == Flatten([i \in 1..Len(text) |-> Decomposition(text[i])])

\* ''.join(c for c in text if not unicodedata.combining(c))
StripCombining(text) == SelectSeq(text, LAMBDA c : ~combining(c))

\* re.sub(r'[^\w\s]', ' ', text)
ReplacePunct(text) ==
    [i \in 1..Len(text) |->
        IF IsWord(text[i]) \/ IsSpace(text[i]) THEN text[i] ELSE " "]

\* re.sub(r'\s+', ' ', text): every maximal run of whitespace becomes one blank
RECURSIVE CollapseSpace(_)
CollapseSpace(text) ==
    IF text = <<>> THEN <<>>
    ELSE IF IsSpace(Head(text))
         THEN IF Len(text) > 1 /\ IsSpace(text[2])
              THEN CollapseSpace(Tail(text))
              ELSE <<" ">> \o CollapseSpace(Tail(text))
         ELSE <<Head(text)>> \o CollapseSpace(Tail(text))

\* str.strip()
RECURSIVE LStrip(_)
LStrip(text) ==
    IF text # <<>> /\ IsSpace(Head(text)) THEN LStrip(Tail(text)) ELSE text

RECURSIVE RStrip(_)
RStrip(text) ==
    IF text # <<>> /\ IsSpace(text[Len(text)])
    THEN RStrip(SubSeq(text, 1, Len(text) - 1))
    ELSE text

strip(text) == RStrip(LStrip(text))

\* str.lower()
lower(text) ==
    [i \in 1..Len(text) |->
        IF text[i] = "u03a3" /\ FinalSigma(text, i) THEN "u03c2"
        ELSE LowerChar(text[i])]

\* normalize_text with the whitespace clean-up moved before the replacement
\* of punctuation
normalize_text_StripFirst(text) ==
    lower(ReplacePunct(strip(CollapseSpace(StripCombining(NFKD(text))))))

\* KnowledgeBase.normalize_text
normalize_text(text) ==
    lower(strip(CollapseSpace(ReplacePunct(StripCombining(NFKD(text))))))

\* str.split(): the maximal runs of non-whitespace characters, in order
RECURSIVE SplitAcc(_, _)
SplitAcc(text, cur) ==
    IF text = <<>>
    THEN IF cur = <<>> THEN <<>> ELSE <<cur>>
    ELSE IF IsSpace(Head(text))
         THEN (IF cur = <<>> THEN <<>> ELSE <<cur>>) \o SplitAcc(Tail(text), <<>>)
         ELSE SplitAcc(Tail(text), Append(cur, Head(text)))

split(text) == SplitAcc(text, <<>>)

\* pat in text (substring test of str)
Contains(text, pat) ==
    \E i \in 1..(Len(text) + 1) :
        /\ i + Len(pat) - 1 <= Len(text)
        /\ SubSeq(text, i, i + Len(pat) - 1) = pat

(***************************************************************************)
(* difflib.SequenceMatcher(None, a, b).ratio() for texts shorter than 200  *)
(* characters (no junk, no popular-element heuristic).                     *)
(***************************************************************************)
\* length of the common run of a[i..ahi] and b[j..bhi]
RECURSIVE RunLen(_, _, _, _, _, _)
RunLen(a, b, i, j, ahi, bhi) ==
    IF i <= ahi /\ j <= bhi /\ a[i] = b[j]
    THEN 1 + RunLen(a, b, i + 1, j + 1, ahi, bhi)
    ELSE 0

\* the largest element of a non-empty set of integers
SetMax(S) == CHOOSE x \in S : \A y \in S : x >= y

\* the smallest element of a non-empty set of integers
SetMin(S) == CHOOSE x \in S : \A y \in S : x <= y

\* SequenceMatcher.find_longest_match over a[alo..ahi], b[blo..bhi] (1-based,
\* inclusive): the longest block, of those the one starting earliest in a,
\* of those the one starting earliest in b.  <<i, j, k>>, k = 0 when none.
find_longest_match(a, b, alo, ahi, blo, bhi) ==
    LET run == [i \in alo..ahi |-> [j \in blo..bhi |->
                    RunLen(a, b, i, j, ahi, bhi)]]
        k == SetMax({run[i][j] : i \in alo..ahi, j \in blo..bhi})
        besti == SetMin({i \in alo..ahi : \E j \in blo..bhi : run[i][j] = k})
        bestj == SetMin({j \in blo..bhi : run[besti][j] = k})
    IN IF alo > ahi \/ blo > bhi THEN <<alo, blo, 0>>
       ELSE IF k = 0 THEN <<alo, blo, 0>>
       ELSE <<besti, bestj, k>>

\* sum of the sizes of SequenceMatcher.get_matching_blocks()
RECURSIVE MatchCount(_, _, _, _, _, _)
MatchCount(a, b, alo, ahi, blo, bhi) ==
    IF alo > ahi \/ blo > bhi THEN 0
    ELSE LET m == find_longest_match(a, b, alo, ahi, blo, bhi)
             i == m[1]
             j == m[2]
             k == m[3]
         IN IF k = 0 THEN 0
            ELSE k + MatchCount(a, b, alo, i - 1, blo, j - 1)
                   + MatchCount(a, b, i + k, ahi, j + k, bhi)

\* SequenceMatcher.ratio() as the fraction num/den: 2.0*matches/length, and
\* 1.0 when both texts are empty
ratio(a, b) ==
    IF Len(a) + Len(b) = 0
    THEN [num |-> 1, den |-> 1]
    ELSE [num |-> 2 * MatchCount(a, b, 1, Len(a), 1, Len(b)),
          den |-> Len(a) + Len(b)]

\* the threshold of search_by_patterns, 0.3, as a fraction
ThresholdNum == 3
ThresholdDen == 10

\* the comparison with a threshold of 0.2
AboveThreshold_Fifth(s) == s.num * 10 > 2 * s.den

\* similarity > 0.3
AboveThreshold(s) == s.num * ThresholdDen > ThresholdNum * s.den

(***************************************************************************)
(* JSON values.  A dict is a function from its keys; a dict whose order    *)
(* of iteration matters (the categories) is the sequence of its items.     *)
(* A value that may have the wrong shape carries its JSON type.            *)
(***************************************************************************)
EmptyDict == [k \in {} |-> k]

\* dict.get(key, default)
Get(d, key, default) == IF key \in DOMAIN d THEN d[key] ELSE default

\* the hardcoded fallback of get_response
Apology == "I apologize, but I cannot help with that right now."

\* default_data of create_default_knowledge_base; answer, name and response
\* texts, which the engine only passes through, are kept as opaque strings
Default_rice_planting_time ==
    [id |-> "rice_planting_time",
     question |->
        [en |-> <<<<"w", "h", "e", "n", " ", "t", "o", " ", "p", "l", "a", "n", "t", " ", "r", "i", "c", "e">>,
               <<"r", "i", "c", "e", " ", "p", "l", "a", "n", "t", "i", "n", "g", " ", "s", "e", "a", "s", "o", "n">>,
               <<"b", "e", "s", "t", " ", "t", "i", "m", "e", " ", "f", "o", "r", " ", "r", "i", "c", "e", " ", "c", "u", "l", "t", "i", "v", "a", "t", "i", "o", "n">>>>,
         hi |-> <<<<"u091a", "u093e", "u0935", "u0932", " ", "u0915", "u092c", " ", "u0932", "u0917", "u093e", "u090f", "u0902">>,
               <<"u091a", "u093e", "u0935", "u0932", " ", "u092c", "u094b", "u0928", "u0947", " ", "u0915", "u093e", " ", "u0938", "u092e", "u092f">>,
               <<"u0927", "u093e", "u0928", " ", "u0915", "u0940", " ", "u0916", "u0947", "u0924", "u0940", " ", "u0915", "u093e", " ", "u0938", "u092e", "u092f">>>>],
     answer |-> [en |-> "rice_planting_time.answer.en", hi |-> "rice_planting_time.answer.hi"],
     keywords |-> <<<<"r", "i", "c", "e">>,
                  <<"p", "a", "d", "d", "y">>,
                  <<"m", "o", "n", "s", "o", "o", "n">>,
                  <<"k", "h", "a", "r", "i", "f">>,
                  <<"u091a", "u093e", "u0935", "u0932">>,
                  <<"u0927", "u093e", "u0928">>,
                  <<"u0916", "u0930", "u0940", "u092b">>,
                  <<"u092e", "u093e", "u0928", "u0938", "u0942", "u0928">>>>]

Default_wheat_cultivation ==
    [id |-> "wheat_cultivation",
     question |->
        [en |-> <<<<"w", "h", "e", "n", " ", "t", "o", " ", "s", "o", "w", " ", "w", "h", "e", "a", "t">>,
               <<"w", "h", "e", "a", "t", " ", "p", "l", "a", "n", "t", "i", "n", "g", " ", "t", "i", "m", "e">>,
               <<"r", "a", "b", "i", " ", "w", "h", "e", "a", "t", " ", "s", "e", "a", "s", "o", "n">>>>,
         hi |-> <<<<"u0917", "u0947", "u0939", "u0942", "u0902", " ", "u0915", "u092c", " ", "u092c", "u094b", "u090f", "u0902">>,
               <<"u0917", "u0947", "u0939", "u0942", "u0902", " ", "u092c", "u094b", "u0928", "u0947", " ", "u0915", "u093e", " ", "u0938", "u092e", "u092f">>,
               <<"u0930", "u092c", "u0940", " ", "u0917", "u0947", "u0939", "u0942", "u0902", " ", "u0915", "u093e", " ", "u092e", "u094c", "u0938", "u092e">>>>],
     answer |-> [en |-> "wheat_cultivation.answer.en", hi |-> "wheat_cultivation.answer.hi"],
     keywords |-> <<<<"w", "h", "e", "a", "t">>,
                  <<"r", "a", "b", "i">>,
                  <<"n", "o", "v", "e", "m", "b", "e", "r">>,
                  <<"d", "e", "c", "e", "m", "b", "e", "r">>,
                  <<"u0917", "u0947", "u0939", "u0942", "u0902">>,
                  <<"u0930", "u092c", "u0940">>,
                  <<"u0928", "u0935", "u0902", "u092c", "u0930">>,
                  <<"u0926", "u093f", "u0938", "u0902", "u092c", "u0930">>>>]

Default_soil_testing ==
    [id |-> "soil_testing",
     question |->
        [en |-> <<<<"h", "o", "w", " ", "t", "o", " ", "t", "e", "s", "t", " ", "s", "o", "i", "l">>,
               <<"s", "o", "i", "l", " ", "t", "e", "s", "t", "i", "n", "g", " ", "m", "e", "t", "h", "o", "d", "s">>,
               <<"c", "h", "e", "c", "k", " ", "s", "o", "i", "l", " ", "q", "u", "a", "l", "i", "t", "y">>>>,
         hi |-> <<<<"u092e", "u093f", "u091f", "u094d", "u091f", "u0940", " ", "u0915", "u0940", " ", "u091c", "u093e", "u0902", "u091a", " ", "u0915", "u0948", "u0938", "u0947", " ", "u0915", "u0930", "u0947", "u0902">>,
               <<"u092d", "u0942", "u092e", "u093f", " ", "u092a", "u0930", "u0940", "u0915", "u094d", "u0937", "u0923">>,
               <<"u092e", "u093f", "u091f", "u094d", "u091f", "u0940", " ", "u0915", "u0940", " ", "u0917", "u0941", "u0923", "u0935", "u0924", "u094d", "u0924", "u093e">>>>],
     answer |-> [en |-> "soil_testing.answer.en", hi |-> "soil_testing.answer.hi"],
     keywords |-> <<<<"s", "o", "i", "l", " ", "t", "e", "s", "t">>,
                  <<"p", "H">>,
                  <<"n", "i", "t", "r", "o", "g", "e", "n">>,
                  <<"p", "h", "o", "s", "p", "h", "o", "r", "u", "s">>,
                  <<"p", "o", "t", "a", "s", "s", "i", "u", "m">>,
                  <<"u092e", "u093f", "u091f", "u094d", "u091f", "u0940", " ", "u091c", "u093e", "u0902", "u091a">>,
                  <<"u0928", "u093e", "u0907", "u091f", "u094d", "u0930", "u094b", "u091c", "u0928">>,
                  <<"u092b", "u093e", "u0938", "u094d", "u092b", "u094b", "u0930", "u0938">>,
                  <<"u092a", "u094b", "u091f", "u0947", "u0936", "u093f", "u092f", "u092e">>>>]

DefaultCommonQuestions ==
    [greetings |->
        [en |-> <<<<"h", "e", "l", "l", "o">>,
               <<"h", "i">>,
               <<"g", "o", "o", "d", " ", "m", "o", "r", "n", "i", "n", "g">>,
               <<"g", "o", "o", "d", " ", "e", "v", "e", "n", "i", "n", "g">>,
               <<"n", "a", "m", "a", "s", "t", "e">>>>,
         hi |-> <<<<"u0928", "u092e", "u0938", "u094d", "u0924", "u0947">>,
               <<"u0928", "u092e", "u0938", "u094d", "u0915", "u093e", "u0930">>,
               <<"u0939", "u0948", "u0932", "u094b">>,
               <<"u0938", "u0941", "u092a", "u094d", "u0930", "u092d", "u093e", "u0924">>,
               <<"u0936", "u0941", "u092d", " ", "u0938", "u0902", "u0927", "u094d", "u092f", "u093e">>>>],
     help |->
        [en |-> <<<<"h", "e", "l", "p">>,
               <<"w", "h", "a", "t", " ", "c", "a", "n", " ", "y", "o", "u", " ", "d", "o">>,
               <<"h", "o", "w", " ", "t", "o", " ", "u", "s", "e">>,
               <<"a", "s", "s", "i", "s", "t", "a", "n", "c", "e">>>>,
         hi |-> <<<<"u0938", "u0939", "u093e", "u092f", "u0924", "u093e">>,
               <<"u092e", "u0926", "u0926">>,
               <<"u0906", "u092a", " ", "u0915", "u094d", "u092f", "u093e", " ", "u0915", "u0930", " ", "u0938", "u0915", "u0924", "u0947", " ", "u0939", "u0948", "u0902">>,
               <<"u0915", "u0948", "u0938", "u0947", " ", "u0909", "u092a", "u092f", "u094b", "u0917", " ", "u0915", "u0930", "u0947", "u0902">>>>]]

DefaultResponses ==
    [greetings |-> [en |-> "responses.greetings.en", hi |-> "responses.greetings.hi"],
     help |-> [en |-> "responses.help.en", hi |-> "responses.help.hi"],
     not_found |-> [en |-> "responses.not_found.en", hi |-> "responses.not_found.hi"]]

DefaultData ==
    [metadata |-> "metadata",
     categories |->
        [type |-> "object",
         items |-> <<
            <<"crop_planning", [type |-> "object",
                   name |-> [en |-> "crop_planning.name.en", hi |-> "crop_planning.name.hi"],
                   entries |-> <<Default_rice_planting_time, Default_wheat_cultivation>>]>>,
            <<"soil_management", [type |-> "object",
                   name |-> [en |-> "soil_management.name.en", hi |-> "soil_management.name.hi"],
                   entries |-> <<Default_soil_testing>>]>>>>],
     common_questions |-> DefaultCommonQuestions,
     responses |-> DefaultResponses]

(***************************************************************************)
(* KnowledgeBase methods as operators on the object's fields               *)
(***************************************************************************)
\* the append of build_search_index: the bucket of key is created when
\* missing, then the reference is appended to it
IndexAppend(index, key, ref) ==
    [k \in (DOMAIN index) \cup {key} |->
        IF k = key THEN Append(Get(index, key, <<>>), ref) ELSE index[k]]

\* build_search_index, the loop over the keywords of one entry
RECURSIVE IndexKeywords(_, _, _, _)
IndexKeywords(keywords, category_id, entry, index) ==
    IF keywords = <<>> THEN index
    ELSE IndexKeywords(Tail(keywords), category_id, entry,
            IndexAppend(index, normalize_text(lower(Head(keywords))),
                [category |-> category_id,
                 entry_id |-> entry.id,
                 entry |-> entry]))

\* build_search_index, the loop over the entries of one category;
\* entry['id'] raises KeyError for an entry without an id
RECURSIVE IndexEntries(_, _, _)
IndexEntries(entries, category_id, st) ==
    IF entries = <<>> THEN st
    ELSE IF "id" \notin DOMAIN Head(entries)
         THEN [st EXCEPT !.exc = "KeyError"]
         ELSE IndexEntries(Tail(entries), category_id,
                [st EXCEPT !.index =
                    IndexKeywords(Get(Head(entries), "keywords", <<>>),
                                  category_id, Head(entries), st.index)])

\* build_search_index, the loop over the categories; category_data.get
\* raises AttributeError for a category that is not a JSON object
RECURSIVE IndexCategories(_, _)
IndexCategories(items, st) ==
    IF items = <<>> THEN st
    ELSE LET category_id == Head(items)[1]
             category_data == Head(items)[2]
         IN IF category_data.type # "object"
            THEN [st EXCEPT !.exc = "AttributeError"]
            ELSE LET st2 == IndexEntries(Get(category_data, "entries", <<>>),
                                         category_id, st)
                 IN IF st2.exc # "none" THEN st2
                    ELSE IndexCategories(Tail(items), st2)

\* KnowledgeBase.build_search_index: the index built and the exception that
\* ended the build ("none" when it returned)
build_search_index(kbdata) ==
    IF DOMAIN kbdata = {} \/ "categories" \notin DOMAIN kbdata
    THEN [index |-> EmptyDict, exc |-> "none"]
    ELSE IndexCategories(kbdata.categories.items,
                         [index |-> EmptyDict, exc |-> "none"])

\* get_response answering in English whatever the language
get_response_EnglishOnly(kbdata, response_type, language) ==
    Get(Get(Get(kbdata, "responses", EmptyDict), response_type, EmptyDict),
        "en", Apology)

\* get_response without the fallback to English and to the apology
get_response_NoFallback(kbdata, response_type, language) ==
    LET responses == Get(kbdata, "responses", EmptyDict)
        response_data == Get(responses, response_type, EmptyDict)
    IN Get(response_data, language, "")

\* KnowledgeBase.get_response
get_response(kbdata, response_type, language) ==
    LET responses == Get(kbdata, "responses", EmptyDict)
        response_data == Get(responses, response_type, EmptyDict)
    IN Get(response_data, language, Get(response_data, "en", Apology))

\* the trigger phrases is_greeting / is_help_request go through:
\* those of the language, then those of 'en'
TriggerPhrases(kbdata, intent, language) ==
    LET table == Get(Get(kbdata, "common_questions", EmptyDict),
                     intent, EmptyDict)
    IN Get(table, language, <<>>) \o Get(table, "en", <<>>)

\* the loop of is_greeting / is_help_request
AnyTriggerIn(phrases, text) ==
    \E i \in 1..Len(phrases) : Contains(text, normalize_text(phrases[i]))

\* is_greeting without the greetings of 'en'
is_greeting_LanguageOnly(kbdata, text, language) ==
    AnyTriggerIn(Get(Get(Get(kbdata, "common_questions", EmptyDict),
                         "greetings", EmptyDict), language, <<>>), text)

\* KnowledgeBase.is_greeting
is_greeting(kbdata, text, language) ==
    AnyTriggerIn(TriggerPhrases(kbdata, "greetings", language), text)

\* KnowledgeBase.is_help_request
is_help_request(kbdata, text, language) ==
    AnyTriggerIn(TriggerPhrases(kbdata, "help", language), text)

\* x in list
InSeq(x, seq) == \E i \in 1..Len(seq) : seq[i] = x

\* search_entries, the loop over one bucket: append what is not yet there
RECURSIVE AddBucket(_, _)
AddBucket(bucket, matches) ==
    IF bucket = <<>> THEN matches
    ELSE AddBucket(Tail(bucket),
            IF InSeq(Head(bucket), matches) THEN matches
            ELSE Append(matches, Head(bucket)))

\* search_entries, the keyword-based search over the words of the question
RECURSIVE KeywordMatches(_, _, _)
KeywordMatches(index, question_words, matches) ==
    IF question_words = <<>> THEN matches
    ELSE KeywordMatches(index, Tail(question_words),
            IF Head(question_words) \in DOMAIN index
            THEN AddBucket(index[Head(question_words)], matches)
            ELSE matches)

\* search_by_patterns, the loop over the question variants of one entry
RECURSIVE PatternMatches(_, _, _, _)
PatternMatches(patterns, category_id, entry, question) ==
    IF patterns = <<>> THEN <<>>
    ELSE LET similarity == ratio(question, normalize_text(Head(patterns)))
             rest == PatternMatches(Tail(patterns), category_id, entry, question)
         IN IF AboveThreshold(similarity)
            THEN <<[category |-> category_id,
                    entry_id |-> entry.id,
                    entry |-> entry,
                    similarity |-> similarity]>> \o rest
            ELSE rest

\* search_by_patterns, the loop over the entries of one category
RECURSIVE EntryMatches(_, _, _, _)
EntryMatches(entries, category_id, question, language) ==
    IF entries = <<>> THEN <<>>
    ELSE LET entry == Head(entries)
             entry_questions ==
                Get(Get(entry, "question", EmptyDict), language, <<>>)
         IN PatternMatches(entry_questions, category_id, entry, question)
            \o EntryMatches(Tail(entries), category_id, question, language)

\* search_by_patterns, the loop over the categories
RECURSIVE CategoryMatches(_, _, _)
CategoryMatches(items, question, language) ==
    IF items = <<>> THEN <<>>
    ELSE EntryMatches(Get(Head(items)[2], "entries", <<>>), Head(items)[1],
                      question, language)
         \o CategoryMatches(Tail(items), question, language)

\* KnowledgeBase.search_by_patterns
search_by_patterns(kbdata, question, language) ==
    IF "categories" \in DOMAIN kbdata
    THEN CategoryMatches(kbdata.categories.items, question, language)
    ELSE <<>>

\* search_entries running the pattern search whatever the keyword search
\* found
search_entries_AlwaysFuzzy(kbdata, index, question, language) ==
    LET kw == KeywordMatches(index, split(question), <<>>)
    IN [matches |-> kw \o search_by_patterns(kbdata, question, language),
        keyword |-> kw, fuzzy |-> TRUE]

\* KnowledgeBase.search_entries: the matches returned, those of the keyword
\* pass, and whether search_by_patterns was called
search_entries(kbdata, index, question, language) ==
    LET kw == KeywordMatches(index, split(question), <<>>)
    IN IF kw = <<>>
       THEN [matches |-> search_by_patterns(kbdata, question, language),
             keyword |-> kw, fuzzy |-> TRUE]
       ELSE [matches |-> kw, keyword |-> kw, fuzzy |-> FALSE]

\* the return of a string / the raise of an exception
Return(text) == [kind |-> "return", text |-> text]
Raise(exc) == [kind |-> "raise", text |-> exc]

NoMatches == [matches |-> <<>>, keyword |-> <<>>, fuzzy |-> FALSE]

\* the text get_answer takes from the answers of the entry it chose, with
\* the languages tried the other way round
best_match_answer_EnglishFirst(answer, language) ==
    Get(answer, "en", Get(answer, language, ""))

\* the text get_answer takes from the answers of the entry it chose:
\* answer.get(language, answer.get('en', ''))
best_match_answer(answer, language) ==
    Get(answer, language, Get(answer, "en", ""))

\* KnowledgeBase.get_answer: its outcome, the normalized question, the
\* methods it called (steps), the branch it returned from (via) and what
\* search_entries did
get_answer(kbdata, index, question, language) ==
    LET question_normalized == normalize_text(question)
        found == search_entries(kbdata, index, question_normalized, language)
        best_match == found.matches[1]
    IN IF strip(question) = <<>>
       THEN [outcome |-> Return(get_response(kbdata, "not_found", language)),
             normalized |-> <<>>, steps |-> {}, via |-> "empty",
             found |-> NoMatches]
       ELSE IF is_greeting(kbdata, question_normalized, language)
       THEN [outcome |-> Return(get_response(kbdata, "greetings", language)),
             normalized |-> question_normalized,
             steps |-> {"normalize_text", "is_greeting"}, via |-> "greetings",
             found |-> NoMatches]
       ELSE IF is_help_request(kbdata, question_normalized, language)
       THEN [outcome |-> Return(get_response(kbdata, "help", language)),
             normalized |-> question_normalized,
             steps |-> {"normalize_text", "is_greeting", "is_help_request"},
             via |-> "help", found |-> NoMatches]
       ELSE LET steps == {"normalize_text", "is_greeting", "is_help_request",
                          "search_entries"}
                         \cup (IF found.fuzzy THEN {"search_by_patterns"}
                               ELSE {})
            IN IF found.matches # <<>>
               THEN [outcome |->
                        IF "answer" \notin DOMAIN best_match.entry
                        THEN Raise("KeyError")
                        ELSE Return(best_match_answer(best_match.entry.answer,
                                                language))
                     ,
                     normalized |-> question_normalized, steps |-> steps,
                     via |-> "entry", found |-> found]
               ELSE [outcome |->
                        Return(get_response(kbdata, "not_found", language)),
                     normalized |-> question_normalized, steps |-> steps,
                     via |-> "not_found", found |-> found]

\* the summary get_categories gives of one category
CategorySummary(item) ==
    [id |-> item[1],
     name |-> Get(item[2], "name", EmptyDict),
     entry_count |-> Len(Get(item[2], "entries", <<>>))]

\* KnowledgeBase.get_categories
get_categories(kbdata) ==
    LET items == Get(kbdata, "categories",
                     [type |-> "object", items |-> <<>>]).items
    IN [i \in 1..Len(items) |-> CategorySummary(items[i])]

\* is_loaded asking for a category as well
is_loaded_NeedsCategory(kbdata) ==
    /\ "categories" \in DOMAIN kbdata
    /\ kbdata.categories.items # <<>>

\* KnowledgeBase.is_loaded: bool(self.data and 'categories' in self.data)
is_loaded(kbdata) ==
    /\ kbdata # EmptyDict
    /\ "categories" \in DOMAIN kbdata

(***************************************************************************)
(* Static sources the process may find at data/agricultural_data.json      *)
(***************************************************************************)
P1 ==
    [id |-> "e1",
     question |-> [en |-> << <<"a", "b">> >>, hi |-> << <<"b", "a">> >>],
     answer |-> [en |-> "e1.en", hi |-> "e1.hi"],
     keywords |-> << <<"a">> >>]

\* shares the keyword "a" with P1 once normalized; has a two-word keyword
P2 ==
    [id |-> "e2",
     question |-> [en |-> << <<"b", " ", "a">> >>],
     answer |-> [en |-> "e2.en"],
     keywords |-> << <<"A">>, <<"a", " ", "b">> >>]

\* no 'keywords' key
P3 ==
    [id |-> "e3",
     question |-> [en |-> << <<"a">> >>],
     answer |-> [en |-> "e3.en", hi |-> "e3.hi"]]

P4 ==
    [id |-> "e4",
     question |-> [en |-> << <<"a", "b">>, <<"b", "b", "b", "b", "b">> >>,
                   hi |-> << <<"a", "b">> >>],
     answer |-> [en |-> "e4.en", hi |-> "e4.hi"],
     keywords |-> <<>>]

\* no English answer
P5 ==
    [id |-> "e5",
     question |-> [en |-> << <<"b", "b", "b", "b", "b">> >>],
     answer |-> [hi |-> "e5.hi"],
     keywords |-> << <<"b">> >>]

\* a question variant and a keyword that normalize to the empty text, and
\* an empty answer text
P6 ==
    [id |-> "e6",
     question |-> [en |-> << <<"!">> >>],
     answer |-> [en |-> ""],
     keywords |-> << <<"!">> >>]

\* no 'question' key and an empty answer mapping
P7 ==
    [id |-> "e7",
     answer |-> EmptyDict,
     keywords |-> << <<"b", "a">> >>]

\* no 'id' key
M1 ==
    [question |-> [en |-> << <<"a">> >>],
     answer |-> [en |-> "m1.en"],
     keywords |-> << <<"a">> >>]

\* no 'answer' key
M2 ==
    [id |-> "m2",
     question |-> [en |-> << <<"a", "b">> >>],
     keywords |-> << <<"b">> >>]

\* a keyword that is one capital lunate sigma, and a keyword twice up to case
P8 ==
    [id |-> "e8",
     question |-> [en |-> << <<"b", "a">> >>],
     answer |-> [en |-> "e8.en"],
     keywords |-> << <<"u03f9">>, <<"a">>, <<"A">> >>]

\* a second entry with the id and the keyword of P1, and other texts
P9 ==
    [id |-> "e1",
     question |-> [en |-> << <<"b", "b">> >>],
     answer |-> [en |-> "e9.en"],
     keywords |-> << <<"a">>, <<"b">> >>]

EntryPool == {P1, P2, P3, P4, P5, P6, P7, M1, M2}

\* the entries that are also laid out over two categories
CrossPool == {P1, P2, P3, P4}

Category(entries) ==
    [type |-> "object", name |-> [en |-> "name.en"], entries |-> entries]

Categories(items) == [type |-> "object", items |-> items]

CategoryLayouts ==
    {Categories(<< <<"c1", Category(<<x>>)>> >>) : x \in EntryPool}
    \cup UNION {{Categories(<< <<"c1", Category(<<x, y>>)>> >>) :
                    y \in EntryPool \ {x}} : x \in EntryPool}
    \cup UNION {{Categories(<< <<"c1", Category(<<x>>)>>,
                               <<"c2", Category(<<y>>)>> >>) :
                    y \in CrossPool \ {x}} : x \in CrossPool}

BaseCategories ==
    Categories(<< <<"c1", Category(<<P1, P2>>)>>, <<"c2", Category(<<P4>>)>> >>)

BaseCommonQuestions ==
    [greetings |-> [en |-> << <<"A", "a">> >>, hi |-> << <<"b", "b">> >>],
     help |-> [en |-> << <<"b", " ", "b">> >>]]

CommonQuestionsOptions ==
    {BaseCommonQuestions,
     \* a greeting that is a keyword of P1 and P2
     [greetings |-> [en |-> << <<"a">> >>]],
     \* a greeting that normalizes to the empty text
     [greetings |-> [hi |-> << <<"!">> >>], help |-> [en |-> << <<"b">> >>]],
     \* a help phrase that normalizes to the empty text
     [help |-> [en |-> << <<"!", " ">> >>]]}

BaseResponses ==
    [greetings |-> [en |-> "greetings.en", hi |-> "greetings.hi"],
     help |-> [en |-> "help.en", hi |-> "help.hi"],
     not_found |-> [en |-> "not_found.en", hi |-> "not_found.hi"]]

ResponsesOptions ==
    {BaseResponses,
     [greetings |-> [en |-> "greetings.en"], not_found |-> [hi |-> "not_found.hi"]],
     [help |-> [en |-> ""], not_found |-> [en |-> ""]]}

Document(categories, common_questions, responses) ==
    [categories |-> categories,
     common_questions |-> common_questions,
     responses |-> responses]

Documents ==
    {Document(c, BaseCommonQuestions, BaseResponses) : c \in CategoryLayouts}
    \cup {Document(BaseCategories, q, r) :
            q \in CommonQuestionsOptions, r \in ResponsesOptions}
    \cup {\* no 'common_questions' and no 'responses' key
          [categories |-> BaseCategories],
          \* no 'categories' key
          [responses |-> BaseResponses],
          \* 'categories' is a JSON array
          [categories |-> [type |-> "array", items |-> <<>>],
           responses |-> BaseResponses],
          \* a category is a JSON string
          Document(Categories(<< <<"c1", Category(<<P1>>)>>,
                                 <<"c2", [type |-> "string"]>> >>),
                   BaseCommonQuestions, BaseResponses),
          \* keywords outside the Latin and Devanagari letters
          Document(Categories(<< <<"c1", Category(<<P8, P1>>)>> >>),
                   BaseCommonQuestions, BaseResponses),
          \* two entries of one category with the same id
          Document(Categories(<< <<"c1", Category(<<P1, P9, P5>>)>> >>),
                   BaseCommonQuestions, BaseResponses),
          \* 'categories' is an empty JSON object
          Document(Categories(<<>>), BaseCommonQuestions, BaseResponses),
          \* the empty JSON object
          EmptyDict}

\* the file: absent, present but unreadable or not JSON ("corrupt"), a JSON
\* document that is not an object ("array"), or a JSON object
SourceFiles ==
    {[kind |-> "absent", content |-> EmptyDict],
     [kind |-> "corrupt", content |-> EmptyDict],
     [kind |-> "array", content |-> EmptyDict]}
    \cup {[kind |-> "object", content |-> d] : d \in Documents}

\* what the write of the default can end in: the file written, no file
\* created, or a file left truncated
WriteOutcomes == {"written", "not_created", "truncated"}

(***************************************************************************)
(* Callers                                                                 *)
(***************************************************************************)
\* the longest question asked
MaxQLen == 3

\* the characters questions are made of
QChars == {"a", "b", "A", " ", "!"}

\* the elements of a list
Range(seq) == {seq[i] : i \in 1..Len(seq)}

\* what a user of the built-in dataset would type: every keyword, question
\* variant and trigger phrase of default_data
DefaultPhrases ==
    UNION {Range(e.keywords) \cup Range(e.question.en)
           \cup Range(e.question.hi) :
              e \in {Default_rice_planting_time, Default_wheat_cultivation,
                     Default_soil_testing}}
    \cup UNION {Range(DefaultCommonQuestions[x[1]][x[2]]) :
                  x \in {"greetings", "help"} \X {"en", "hi"}}

\* the first Hindi variant of wheat_cultivation ("gehun kab boen", when to
\* sow wheat), typed as stored
WheatQuestion ==
    <<"u0917", "u0947", "u0939", "u0942", "u0902", " ", "u0915", "u092c", " ", "u092c", "u094b", "u090f", "u0902">>

\* "xyzzy quantum farming", a question about nothing the dataset knows
UnknownQuestion ==
    <<"x", "y", "z", "z", "y", " ", "q", "u", "a", "n", "t", "u", "m", " ", "f", "a", "r", "m", "i", "n", "g">>

\* every text of at most MaxQLen characters of QChars, and the longer
\* questions put to the built-in dataset
Questions ==
    UNION {[1..n -> QChars] : n \in 0..MaxQLen}
    \cup DefaultPhrases \cup {WheatQuestion, UnknownQuestion}

\* 'fr' is a language no knowledge base knows
Languages == {"en", "hi", "fr"}

(***************************************************************************)
(* The process: one KnowledgeBase object and the file it loads             *)
(***************************************************************************)
VARIABLES
    fs,              \* the static source file
    data,            \* self.data
    categories,      \* self.categories
    keywords_index,  \* self.keywords_index
    pc,              \* "load", "build": inside __init__; "ready": constructed;
                     \* "raised": __init__ raised; "called": get_answer ended;
                     \* "queried": is_loaded or get_categories ended
    call,            \* the call that ended last and what it did
    process,         \* what this process has run of load_data and
                     \* build_search_index, and the source load_data found
    requests,        \* the request each server thread is handling
    previous         \* the knowledge base the process before this one had

vars ==
    <<fs, data, categories, keywords_index, pc, call, process, requests,
      previous>>

NoCall == [op |-> "none"]

\* a process that has not run load_data yet
NewProcess == [loads |-> 0, builds |-> 0, source |-> "none"]

\* no process ran before this one
NoPrevious == [pc |-> "none"]

\* the threads the server handles requests with
NumThreads == 2

Threads == 1..NumThreads

Idle == [state |-> "idle"]

\* a dump that leaves an empty JSON object in the file
json_dump_EmptyObject(obj) == [kind |-> "object", content |-> EmptyDict]

\* json.dump(obj, f, ensure_ascii=False) to a file opened as UTF-8: a
\* document that is one JSON object, every dict (all keys are strings) as
\* an object in the same key order, every list as an array, every str as a
\* string with the same characters
json_dump(obj) == [kind |-> "object", content |-> obj]

\* json.load(f) of a document that is a JSON object: objects as dicts in
\* document order, arrays as lists, strings as str
json_load(file) == file.content

\* KnowledgeBase.__init__ up to the call of load_data
Init ==
    /\ fs \in SourceFiles
    /\ data = EmptyDict
    /\ categories = <<>>
    /\ keywords_index = EmptyDict
    /\ pc = "load"
    /\ call = NoCall
    /\ process = NewProcess
    /\ requests = [t \in Threads |-> Idle]
    /\ previous = NoPrevious

\* list(dict.keys()) of the categories
CategoryIds(cats) == [i \in 1..Len(cats.items) |-> cats.items[i][1]]

\* the except clause without the reset of self.data
LoadFailed_KeepsData ==
    /\ data' = fs.content
    /\ categories' = <<>>

\* load_data when the try block ends in the except clause
LoadFailed ==
    /\ data' = EmptyDict
    /\ categories' = <<>>

\* load_data, the lines after the if/else: self.categories = list(...keys())
\* raises AttributeError when 'categories' is not a JSON object
ExtractCategories(d) ==
    IF "categories" \notin DOMAIN d
    THEN data' = d /\ categories' = <<>>
    ELSE IF d.categories.type # "object"
    THEN LoadFailed
    ELSE data' = d /\ categories' = CategoryIds(d.categories)

\* load_data with the default installed in memory before it is written, so
\* that it stays when the write fails
LoadData_DefaultBeforeWrite ==
    /\ pc = "load"
    /\ pc' = "build"
    /\ process' = [process EXCEPT !.loads = @ + 1, !.source = fs.kind]
    /\ UNCHANGED <<keywords_index, call, requests, previous>>
    /\ IF fs.kind = "absent"
       THEN /\ \E w \in WriteOutcomes :
                fs' = IF w = "written" THEN json_dump(DefaultData)
                      ELSE [kind |-> IF w = "truncated" THEN "corrupt"
                                     ELSE "absent",
                            content |-> EmptyDict]
            /\ ExtractCategories(DefaultData)
       ELSE /\ fs' = fs
            /\ IF fs.kind = "object"
               THEN ExtractCategories(json_load(fs))
               ELSE LoadFailed

\* KnowledgeBase.load_data (with create_default_knowledge_base)
LoadData ==
    /\ pc = "load"
    /\ pc' = "build"
    /\ process' = [process EXCEPT !.loads = @ + 1, !.source = fs.kind]
    /\ UNCHANGED <<keywords_index, call, requests, previous>>
    /\ IF fs.kind = "absent"
       THEN \E w \in WriteOutcomes :
                IF w = "written"
                THEN /\ fs' = json_dump(DefaultData)
                     /\ ExtractCategories(DefaultData)
                ELSE /\ fs' = [kind |-> IF w = "truncated" THEN "corrupt"
                                        ELSE "absent",
                               content |-> EmptyDict]
                     /\ LoadFailed
       ELSE /\ fs' = fs
            /\ IF fs.kind = "object"
               THEN ExtractCategories(json_load(fs))
               ELSE LoadFailed

\* KnowledgeBase.build_search_index, called by __init__
BuildSearchIndex ==
    /\ pc = "build"
    /\ LET built == build_search_index(data)
       IN /\ keywords_index' = built.index
          /\ pc' = IF built.exc = "none" THEN "ready" ELSE "raised"
          /\ call' = [op |-> "__init__",
                      outcome |-> IF built.exc = "none" THEN Return("")
                                  ELSE Raise(built.exc)]
    /\ process' = [process EXCEPT !.builds = @ + 1]
    /\ UNCHANGED <<fs, data, categories, requests, previous>>

\* a caller runs get_answer(question, language)
\* get_answer that remembers the words it was asked about as index keys
GetAnswer_RemembersQuestion ==
    /\ pc = "ready"
    /\ \E question \in Questions, language \in Languages :
        /\ call' = [op |-> "get_answer", question |-> question,
                    language |-> language]
                   @@ get_answer(data, keywords_index, question, language)
        /\ keywords_index' =
              [key \in DOMAIN keywords_index
                          \cup Range(split(normalize_text(question))) |->
                  Get(keywords_index, key, <<>>)]
    /\ pc' = "called"
    /\ UNCHANGED <<fs, data, categories, process, requests, previous>>

GetAnswer ==
    /\ pc = "ready"
    /\ \E question \in Questions, language \in Languages :
        call' = [op |-> "get_answer", question |-> question,
                 language |-> language]
                @@ get_answer(data, keywords_index, question, language)
    /\ pc' = "called"
    /\ UNCHANGED <<fs, data, categories, keywords_index, process, requests,
                 previous>>

\* KnowledgeBase.is_loaded, as the status route calls it
IsLoaded ==
    /\ pc = "ready"
    /\ call' = [op |-> "is_loaded", result |-> is_loaded(data)]
    /\ pc' = "queried"
    /\ UNCHANGED <<fs, data, categories, keywords_index, process, requests,
                 previous>>

\* KnowledgeBase.get_categories, as the categories route calls it
GetCategories ==
    /\ pc = "ready"
    /\ call' = [op |-> "get_categories", result |-> get_categories(data)]
    /\ pc' = "queried"
    /\ UNCHANGED <<fs, data, categories, keywords_index, process, requests,
                 previous>>

\* the caller has taken the outcome; the object is ready for the next call
Done ==
    /\ pc \in {"called", "queried"}
    /\ pc' = "ready"
    /\ call' = NoCall
    /\ UNCHANGED <<fs, data, categories, keywords_index, process, requests,
                 previous>>

Next ==
    \/ LoadData
    \/ BuildSearchIndex
    \/ GetAnswer
    \/ IsLoaded
    \/ GetCategories
    \/ Done

Spec == Init /\ [][Next]_vars

(***************************************************************************)
(* Vocabulary of the properties                                            *)
(***************************************************************************)
\* get_answer has ended and its outcome is in call
Called == pc = "called"

\* the <<category_id, entry>> pairs of a loaded knowledge base, in
\* iteration order
RECURSIVE ItemEntries(_)
ItemEntries(items) ==
    IF items = <<>> THEN <<>>
    ELSE LET entries == Get(Head(items)[2], "entries", <<>>)
         IN [i \in 1..Len(entries) |-> <<Head(items)[1], entries[i]>>]
            \o ItemEntries(Tail(items))

KBEntries(d) ==
    IF "categories" \in DOMAIN d THEN ItemEntries(d.categories.items) ELSE <<>>

\* the reference the keyword index holds for an entry
Ref(category_id, entry) ==
    [category |-> category_id, entry_id |-> entry.id, entry |-> entry]

\* the answer text of an entry for a language: the language's, else the
\* English one, else the empty string
EntryAnswer(entry, language) ==
    IF language \in DOMAIN entry.answer THEN entry.answer[language]
    ELSE IF "en" \in DOMAIN entry.answer THEN entry.answer["en"]
    ELSE ""

\* the question variants of an entry for a language, without any fallback
Variants(entry, language) ==
    IF "question" \in DOMAIN entry /\ language \in DOMAIN entry.question
    THEN entry.question[language]
    ELSE <<>>

\* the (entry, phrase) pairs of a language with their similarity to a
\* normalized question: <<position of the entry in iteration order,
\* position of the phrase, similarity>>
Pairs(d, question, language) ==
    UNION {{<<i, j, ratio(question,
                    normalize_text(Variants(KBEntries(d)[i][2], language)[j]))>> :
                j \in 1..Len(Variants(KBEntries(d)[i][2], language))} :
            i \in 1..Len(KBEntries(d))}

\* s1 > s2 for two ratios
RatioGreater(s1, s2) == s1.num * s2.den > s2.num * s1.den

\* similarity strictly above 0.3
Above03(sim) == 10 * sim.num > 3 * sim.den

\* the not_found response of a language
NotFound(language) == Return(get_response(data, "not_found", language))

\* the words of the normalized question that are keys of the keyword index
IndexedWords(question) ==
    {i \in 1..Len(split(normalize_text(question))) :
        split(normalize_text(question))[i] \in DOMAIN keywords_index}

(***************************************************************************)
(* C1.  A question that is exactly the normalized form of a keyword k of   *)
(* an entry E makes get_answer return E's answer, E being found by the     *)
(* keyword pass.  Stated for the calls in which no greeting or help        *)
(* trigger fires, for entries that have an answer and for keywords that no *)
(* other entry shares.                                                     *)
(***************************************************************************)
\* entry i is the only entry with a keyword that normalizes to key
SoleOwner(i, key) ==
    \A i2 \in 1..Len(KBEntries(data)) :
        LET keywords2 == Get(KBEntries(data)[i2][2], "keywords", <<>>)
        IN (\E j2 \in 1..Len(keywords2) : normalize_text(keywords2[j2]) = key)
            => i2 = i

C1_KeywordQuestionReturnsEntry ==
    (Called /\ call.via \in {"entry", "not_found"}) =>
        \A i \in 1..Len(KBEntries(data)) :
            LET category_id == KBEntries(data)[i][1]
                entry == KBEntries(data)[i][2]
                keywords == Get(entry, "keywords", <<>>)
            IN \A j \in 1..Len(keywords) :
                (/\ "answer" \in DOMAIN entry
                 /\ SoleOwner(i, normalize_text(keywords[j]))
                 /\ call.question = normalize_text(keywords[j]))
                => /\ call.outcome = Return(EntryAnswer(entry, call.language))
                   /\ ~call.found.fuzzy
                   /\ InSeq(Ref(category_id, entry), call.found.keyword)

(***************************************************************************)
(* C2.  When the keyword pass finds nothing and some (entry, phrase) pair  *)
(* of the language scores above 0.3, get_answer returns the answer of the  *)
(* entry of the highest-scoring pair, the first such pair in iteration     *)
(* order on a tie.                                                         *)
(***************************************************************************)
\* the pair the claim selects: no pair scores higher, and no pair with the
\* same score comes earlier
BestPair(pairs) ==
    CHOOSE p \in pairs : \A q \in pairs :
        /\ ~RatioGreater(q[3], p[3])
        /\ (q[3].num * p[3].den = p[3].num * q[3].den)
            => (p[1] < q[1] \/ (p[1] = q[1] /\ p[2] <= q[2]))

C2_FuzzyReturnsHighestSimilarity ==
    LET pairs == {p \in Pairs(data, call.normalized, call.language) :
                    Above03(p[3])}
        best == KBEntries(data)[BestPair(pairs)[1]][2]
    IN (/\ Called
        /\ call.via \in {"entry", "not_found"}
        /\ call.found.keyword = <<>>
        /\ pairs # {}
        /\ "answer" \in DOMAIN best)
       => call.outcome = Return(EntryAnswer(best, call.language))

(***************************************************************************)
(* C3.  When a word of the normalized question is a key of the keyword     *)
(* index, search_entries does not call search_by_patterns and returns only *)
(* references held in the buckets of the question's words.                 *)
(***************************************************************************)
C3_KeywordPassPrecedence ==
    Called =>
        LET question == normalize_text(call.question)
            words == split(question)
            found == search_entries(data, keywords_index, question,
                                    call.language)
        IN IndexedWords(call.question) # {} =>
            /\ ~found.fuzzy
            /\ found.matches # <<>>
            /\ \A m \in 1..Len(found.matches) :
                \E w \in IndexedWords(call.question) :
                    InSeq(found.matches[m], keywords_index[words[w]])
            /\ "search_entries" \in call.steps =>
                /\ "search_by_patterns" \notin call.steps
                /\ call.found.matches = found.matches

\* a call whose question has an indexed word and an unindexed one, answered
\* from the keyword pass
C3_Witness ==
    /\ Called
    /\ call.via = "entry"
    /\ IndexedWords(call.question) # {}
    /\ Cardinality(IndexedWords(call.question))
            < Len(split(normalize_text(call.question)))
    /\ "search_by_patterns" \notin call.steps

(***************************************************************************)
(* C4.  Every match of the fuzzy pass is an (entry, phrase) pair of the    *)
(* requested language whose similarity is strictly above 0.3; when no such *)
(* pair exists the fuzzy pass returns nothing and get_answer returns the   *)
(* not_found response.                                                     *)
(***************************************************************************)
C4_FuzzyThreshold ==
    (Called /\ call.found.fuzzy) =>
        LET pairs == Pairs(data, call.normalized, call.language)
            matches == call.found.matches
        IN /\ \A m \in 1..Len(matches) :
                /\ Above03(matches[m].similarity)
                /\ \E p \in pairs :
                    /\ KBEntries(data)[p[1]][2] = matches[m].entry
                    /\ p[3] = matches[m].similarity
           /\ (\A p \in pairs : ~Above03(p[3])) =>
                /\ matches = <<>>
                /\ call.outcome = NotFound(call.language)
           /\ Len(matches) = Cardinality({p \in pairs : Above03(p[3])})

\* the fuzzy pass kept a pair and dropped one that shares characters with
\* the question but scores 0.3 or less
C4_Witness ==
    /\ Called
    /\ call.found.fuzzy
    /\ call.found.matches # <<>>
    /\ \E p \in Pairs(data, call.normalized, call.language) :
            p[3].num > 0 /\ ~Above03(p[3])

(***************************************************************************)
(* C5.  A question whose normalized form is empty gets the not_found       *)
(* response at once: search_entries and search_by_patterns are not run.    *)
(***************************************************************************)
C5_EmptyNormalizedIsNotFoundAtOnce ==
    (Called /\ normalize_text(call.question) = <<>>) =>
        /\ call.outcome = NotFound(call.language)
        /\ call.steps \cap {"search_entries", "search_by_patterns"} = {}

(***************************************************************************)
(* C6.  For a language no entry knows, get_answer returns what it returns  *)
(* for 'en': every language-keyed lookup falls back to English.            *)
(***************************************************************************)
C6_UnknownLanguageAnswersAsEnglish ==
    (Called /\ call.language = "fr") =>
        call.outcome =
            get_answer(data, keywords_index, call.question, "en").outcome

(***************************************************************************)
(* C7.  Neither the construction of the KnowledgeBase nor a call of        *)
(* get_answer raises: both end by returning.                               *)
(***************************************************************************)
C7_NothingRaises ==
    /\ pc # "raised"
    /\ call.op \in {"__init__", "get_answer"} => call.outcome.kind = "return"

(***************************************************************************)
(* C8.  The string get_answer returns is not empty.                        *)
(***************************************************************************)
C8_AnswerNeverEmpty ==
    (Called /\ call.outcome.kind = "return") => call.outcome.text # ""

\* the text stored for an intent and a language in the responses table:
\* the language's, else the English one; "none" when the table has neither
StoredResponse(intent, language) ==
    LET responses == IF "responses" \in DOMAIN data THEN data.responses
                     ELSE EmptyDict
        row == IF intent \in DOMAIN responses THEN responses[intent]
               ELSE EmptyDict
    IN IF language \in DOMAIN row THEN <<row[language]>>
       ELSE IF "en" \in DOMAIN row THEN <<row["en"]>>
       ELSE <<>>

\* the intent whose response a call returned from
IntentOf(via) == IF via = "empty" THEN "not_found" ELSE via

(***************************************************************************)
(* C8 as amended.  The string get_answer returns is empty exactly when the *)
(* text the fallback chain selects is: the matched entry's answer mapping  *)
(* has neither the language nor 'en', or the answer or response text       *)
(* selected is stored empty.  In every other case it is not empty.         *)
(***************************************************************************)
C8_EmptyOnlyWhenSelectedTextIs ==
    (Called /\ call.outcome.kind = "return") =>
        (call.outcome.text = "" <=>
            IF call.via = "entry"
            THEN LET answer == call.found.matches[1].entry.answer
                 IN \/ {call.language, "en"} \cap DOMAIN answer = {}
                    \/ EntryAnswer(call.found.matches[1].entry,
                                   call.language) = ""
            ELSE StoredResponse(IntentOf(call.via), call.language) = <<"">>)

\* a call that matched an entry whose answer mapping has neither the
\* language asked for nor 'en', and returned the empty string
C8_Witness ==
    /\ Called
    /\ call.via = "entry"
    /\ call.outcome = Return("")
    /\ {call.language, "en"} \cap DOMAIN call.found.matches[1].entry.answer = {}

(***************************************************************************)
(* C9.  When reading or parsing the source fails in load_data, the load    *)
(* does not raise, the knowledge base ends empty (no data, no categories,  *)
(* empty keyword index) and every get_answer returns the hardcoded         *)
(* apology.                                                                *)
(***************************************************************************)
\* the file as load_data left it cannot have been loaded: it is missing
\* (the default could not be written), unreadable, or not of the shape
\* load_data reads
SourceUnusable ==
    \/ fs.kind \in {"absent", "corrupt", "array"}
    \/ /\ fs.kind = "object"
       /\ "categories" \in DOMAIN fs.content
       /\ fs.content.categories.type # "object"

C9_LoadFailureLeavesEmptyBase ==
    (pc # "load" /\ SourceUnusable) =>
        /\ DOMAIN data = {}
        /\ categories = <<>>
        /\ DOMAIN keywords_index = {}
        /\ pc # "raised"
        /\ Called =>
            /\ call.outcome = Return(Apology)
            /\ call.via \in {"empty", "not_found"}
            /\ call.found.matches = <<>>

\* a question that is not empty, asked of a knowledge base whose source
\* was corrupt
C9_Witness ==
    /\ Called
    /\ fs.kind = "corrupt"
    /\ call.normalized # <<>>
    /\ call.outcome = Return(Apology)

(***************************************************************************)
(* normalize_text on its own: a text is normalized, then the result is     *)
(* normalized again.                                                       *)
(***************************************************************************)
\* the longest text normalized
MaxNormLen == 3

\* one or two characters of every class normalize_text distinguishes
NormChars ==
    {"a", "b", "A", " ", "u0009", "!", "u093e", "u0301", "u00e1", "u00c1",
     "u03a3", "u03f9"}

NormInputs == UNION {[1..n -> NormChars] : n \in 0..MaxNormLen}

InitNorm ==
    /\ fs = [kind |-> "absent", content |-> EmptyDict]
    /\ data = EmptyDict
    /\ categories = <<>>
    /\ keywords_index = EmptyDict
    /\ pc = "text"
    /\ \E x \in NormInputs :
        call = [op |-> "normalize_text", text |-> x, once |-> <<>>,
                twice |-> <<>>]
    /\ process = NewProcess
    /\ requests = [t \in Threads |-> Idle]
    /\ previous = NoPrevious

\* normalize_text(text)
Normalize ==
    /\ pc = "text"
    /\ pc' = "once"
    /\ call' = [call EXCEPT !.once = normalize_text(call.text)]
    /\ UNCHANGED <<fs, data, categories, keywords_index, process, requests,
                 previous>>

\* normalize_text(normalize_text(text))
NormalizeAgain ==
    /\ pc = "once"
    /\ pc' = "twice"
    /\ call' = [call EXCEPT !.twice = normalize_text(call.once)]
    /\ UNCHANGED <<fs, data, categories, keywords_index, process, requests,
                 previous>>

NextNorm == Normalize \/ NormalizeAgain

SpecNorm == InitNorm /\ [][NextNorm]_vars

\* no leading, trailing or doubled blank; nothing but blanks and word
\* characters that str.lower() leaves alone
Canonical(text) ==
    /\ text # <<>> => (text[1] # " " /\ text[Len(text)] # " ")
    /\ \A i \in 1..(Len(text) - 1) : ~(text[i] = " " /\ text[i + 1] = " ")
    /\ \A i \in 1..Len(text) :
        \/ text[i] = " "
        \/ /\ text[i] \in WordChars
           /\ text[i] \notin LatinUpper \cup {"u00c1", "u03a3", "u03f9"}

(***************************************************************************)
(* C10.  normalize_text is idempotent, and its result has no leading,      *)
(* trailing or doubled whitespace, no uppercase character and no character *)
(* other than word characters and single blanks.                           *)
(***************************************************************************)
C10_NormalizeIdempotentCanonical ==
    /\ pc \in {"once", "twice"} => Canonical(call.once)
    /\ pc = "twice" => call.twice = call.once

\* a text with an accented capital, punctuation and a tab, normalized twice
C10_Witness ==
    /\ pc = "twice"
    /\ call.text = <<"u00c1", "!", "u0009">>
    /\ call.once = <<"a">>
    /\ call.twice = <<"a">>

(***************************************************************************)
(* C11 - intent triggers                                                   *)
(***************************************************************************)
\* pat occurs in text as a contiguous run of characters
IsSubstring(pat, text) ==
    \E i \in 1..(Len(text) + 1) :
        /\ i + Len(pat) - 1 <= Len(text)
        /\ SubSeq(text, i, i + Len(pat) - 1) = pat

\* the normalized trigger phrases of an intent for a language: the stored
\* ones of that language and the stored ones of 'en'
Triggers(intent, language) ==
    LET common == IF "common_questions" \in DOMAIN data
                  THEN data.common_questions ELSE EmptyDict
        table == IF intent \in DOMAIN common THEN common[intent]
                 ELSE EmptyDict
    IN {normalize_text(p) :
           p \in UNION {Range(table[l]) :
                           l \in {language, "en"} \cap DOMAIN table}}

Triggered(intent) ==
    \E t \in Triggers(intent, call.language) :
        IsSubstring(t, normalize_text(call.question))

\* C11 as stated: a question whose normalized text contains a greeting
\* trigger gets the greetings response without the help check or either
\* search pass; failing that, one that contains a help trigger gets the help
\* response without either search pass
C11_TriggerAlwaysWins ==
    Called =>
        IF Triggered("greetings")
        THEN /\ call.outcome
                  = Return(get_response(data, "greetings", call.language))
             /\ call.steps \cap {"is_help_request", "search_entries",
                                 "search_by_patterns"} = {}
        ELSE Triggered("help") =>
                /\ call.outcome
                     = Return(get_response(data, "help", call.language))
                /\ call.steps \cap {"search_entries", "search_by_patterns"}
                     = {}

\* C11, amended: the same for every question that is not empty or blank
\* (an empty or blank question is answered before any intent is looked at)
C11_TriggerWinsUnlessBlank ==
    (Called /\ strip(call.question) # <<>>) =>
        IF Triggered("greetings")
        THEN /\ call.outcome
                  = Return(get_response(data, "greetings", call.language))
             /\ call.via = "greetings"
             /\ call.steps \cap {"is_help_request", "search_entries",
                                 "search_by_patterns"} = {}
        ELSE Triggered("help") =>
                /\ call.outcome
                     = Return(get_response(data, "help", call.language))
                /\ call.via = "help"
                /\ call.steps \cap {"search_entries", "search_by_patterns"}
                     = {}

\* a question holding a greeting trigger and a help trigger, and a word of
\* the index as well, was answered with the greetings response
C11_Witness ==
    /\ Called
    /\ call.normalized # <<>>
    /\ Triggered("greetings")
    /\ Triggered("help")
    /\ IndexedWords(call.question) # {}
    /\ call.outcome = Return(get_response(data, "greetings", call.language))

\* a question holding only a help trigger was answered with the help response
C11_WitnessHelp ==
    /\ Called
    /\ ~Triggered("greetings")
    /\ Triggered("help")
    /\ call.outcome = Return(get_response(data, "help", call.language))

(***************************************************************************)
(* C12, C13 - the built-in dataset                                         *)
(***************************************************************************)
\* the call get_answer(question, language) has returned or raised on the
\* built-in dataset
CalledOnDefault(question, language) ==
    /\ Called
    /\ data = DefaultData
    /\ call.question = question
    /\ call.language = language

\* C12: on the built-in dataset, the Hindi question "gehun kab boen" asked
\* in 'hi' returns the Hindi answer of wheat_cultivation
C12_WheatQuestionReturnsWheat ==
    CalledOnDefault(WheatQuestion, "hi") =>
        call.outcome = Return(Default_wheat_cultivation.answer.hi)

\* C13: on the built-in dataset, "xyzzy quantum farming" asked in 'en'
\* returns the English not_found response
C13_UnknownQuestionNotFound ==
    CalledOnDefault(UnknownQuestion, "en") =>
        call.outcome = Return(DefaultResponses.not_found.en)

(***************************************************************************)
(* C14 - the answer of the matched entry                                   *)
(***************************************************************************)
\* C14: when get_answer has matched an entry E that has an answer mapping,
\* it returns E.answer[language] if present, else E.answer['en'] if
\* present, else the empty string, and does not raise
C14_EntryAnswerFallback ==
    (/\ Called
     /\ call.via = "entry"
     /\ "answer" \in DOMAIN call.found.matches[1].entry) =>
        call.outcome
          = Return(EntryAnswer(call.found.matches[1].entry, call.language))

\* an entry with only an English answer was matched by a question asked
\* in 'hi', and its English text was returned
C14_Witness ==
    /\ Called
    /\ call.via = "entry"
    /\ call.language = "hi"
    /\ "answer" \in DOMAIN call.found.matches[1].entry
    /\ DOMAIN call.found.matches[1].entry.answer = {"en"}
    /\ call.outcome = Return(call.found.matches[1].entry.answer.en)

(***************************************************************************)
(* C15 - the stock responses                                               *)
(***************************************************************************)
Intents == {"greetings", "help", "not_found"}

\* the response text of an intent for a language: the stored one of the
\* language, else the stored English one, else the apology
ExpectedResponse(intent, language) ==
    IF StoredResponse(intent, language) = <<>> THEN Apology
    ELSE StoredResponse(intent, language)[1]

\* C15: on every constructed knowledge base, get_response gives for each
\* intent and language responses[intent][language] if present, else
\* responses[intent]['en'] if present, else the apology - also without a
\* responses table or without the intent's row - and that is the text
\* get_answer returns when it answers with an intent
C15_ResponseFallback ==
    /\ pc \in {"ready", "called"} =>
          \A intent \in Intents, language \in Languages :
              get_response(data, intent, language)
                = ExpectedResponse(intent, language)
    /\ (Called /\ call.via # "entry") =>
          call.outcome
            = Return(ExpectedResponse(IntentOf(call.via), call.language))

\* the responses table has no row for the intent of the call, and the call
\* returned the apology
C15_Witness ==
    /\ Called
    /\ call.via \in {"greetings", "help"}
    /\ "responses" \in DOMAIN data
    /\ call.via \notin DOMAIN data.responses
    /\ call.outcome = Return(Apology)

\* the row of the intent lacks the language asked for, and the call returned
\* the English text
C15_WitnessEnglish ==
    /\ Called
    /\ call.via # "entry"
    /\ call.language # "en"
    /\ "responses" \in DOMAIN data
    /\ IntentOf(call.via) \in DOMAIN data.responses
    /\ DOMAIN data.responses[IntentOf(call.via)] = {"en"}
    /\ call.outcome = Return(data.responses[IntentOf(call.via)].en)

(***************************************************************************)
(* C16 - the calls leave the knowledge base alone                          *)
(***************************************************************************)
Constructed == pc \in {"ready", "called", "queried"}

\* C16: once the object is constructed, no step - get_answer with all it
\* calls, is_loaded, get_categories - changes the data, the category list
\* or the keyword index
C16_CallsChangeNothing ==
    [][Constructed =>
          /\ data' = data
          /\ categories' = categories
          /\ keywords_index' = keywords_index]_vars

\* a call has run both search passes over a knowledge base that has
\* categories and index keys
C16_Witness ==
    /\ Called
    /\ call.found.fuzzy
    /\ categories # <<>>
    /\ DOMAIN keywords_index # {}

(***************************************************************************)
(* C19 - is_loaded                                                         *)
(***************************************************************************)
\* C19: is_loaded returns true exactly when the structure load_data left in
\* self.data has a 'categories' key - an empty mapping under the key
\* counts, the empty knowledge base of the load-failure fallback does not
C19_IsLoadedIffCategoriesKey ==
    (pc = "queried" /\ call.op = "is_loaded") =>
        (call.result <=> "categories" \in DOMAIN data)

\* is_loaded returned true for a knowledge base whose 'categories' is an
\* empty mapping
C19_Witness ==
    /\ pc = "queried"
    /\ call.op = "is_loaded"
    /\ call.result
    /\ "categories" \in DOMAIN data
    /\ data.categories.items = <<>>

\* is_loaded returned false after the load failed on a source that was there
C19_WitnessFallback ==
    /\ pc = "queried"
    /\ call.op = "is_loaded"
    /\ ~call.result
    /\ SourceUnusable

(***************************************************************************)
(* C20 - the keyword index                                                 *)
(***************************************************************************)
\* the <<key, reference>> pairs the knowledge base gives rise to, in
\* iteration order: categories in mapping order, entries in list order,
\* keywords in list order; key is what the keyword is filed under
KeywordRefs(d, key(_)) ==
    Flatten([i \in 1..Len(KBEntries(d)) |->
        LET category_id == KBEntries(d)[i][1]
            entry == KBEntries(d)[i][2]
            keywords == IF "keywords" \in DOMAIN entry THEN entry.keywords
                        ELSE <<>>
        IN [j \in 1..Len(keywords) |->
               <<key(keywords[j]), Ref(category_id, entry)>>]])

\* the index the pairs make: under each key its references, in order
IndexOf(pairs) ==
    [k \in {pairs[i][1] : i \in 1..Len(pairs)} |->
        LET mine == SelectSeq(pairs, LAMBDA x : x[1] = k)
        IN [i \in 1..Len(mine) |-> mine[i][2]]]

\* C20: after build_search_index the index is exactly the references of
\* the knowledge base, each keyword k of entry E of category C filed as
\* (C, E.id, E) under normalize_text(k), once per occurrence, in knowledge
\* base order
C20_IndexIsKeywordsByNormalizedText ==
    Constructed =>
        keywords_index = IndexOf(KeywordRefs(data, normalize_text))

\* what the index does satisfy: each keyword is filed under normalize_text
\* of the lowercased keyword, which is another key for U+03F9
IndexIsKeywordsByLoweredText ==
    Constructed =>
        keywords_index
          = IndexOf(KeywordRefs(data, LAMBDA k : normalize_text(lower(k))))

(***************************************************************************)
(* The server process: FarmAdvisor.__init__ constructs the one             *)
(* KnowledgeBase, then run() serves requests on threads; a process ends    *)
(* and another is started on the same file                                 *)
(***************************************************************************)
\* the sources the server is started on
ServerSources ==
    {[kind |-> "absent", content |-> EmptyDict],
     [kind |-> "corrupt", content |-> EmptyDict],
     json_dump(Document(BaseCategories, BaseCommonQuestions, BaseResponses)),
     json_dump(Document(Categories(<< <<"c1", Category(<<M1>>)>> >>),
                        BaseCommonQuestions, BaseResponses)),
     json_dump(EmptyDict)}

\* what the requests ask: a keyword of the built-in dataset and a greeting
\* of the sample documents
ServerQuestions == {<<"r", "i", "c", "e">>, <<"A", "a">>}

ServerLanguages == {"en", "hi"}

InitServer ==
    /\ fs \in ServerSources
    /\ data = EmptyDict
    /\ categories = <<>>
    /\ keywords_index = EmptyDict
    /\ pc = "load"
    /\ call = NoCall
    /\ process = NewProcess
    /\ requests = [t \in Threads |-> Idle]
    /\ previous = NoPrevious

\* requests are taken while the constructor is still building the index
Serving_WhileBuilding == pc \in {"build", "ready"}

\* requests are taken once run() is called, which is after
\* FarmAdvisor.__init__, and with it KnowledgeBase.__init__, has returned
Serving == pc = "ready"

\* ask_question on thread t: the request is read and get_answer is called
Ask(t) ==
    /\ Serving
    /\ requests[t] = Idle
    /\ \E question \in ServerQuestions, language \in ServerLanguages :
        requests' = [requests EXCEPT
                        ![t] = [state |-> "matching", question |-> question,
                                language |-> language]]
    /\ UNCHANGED <<fs, data, categories, keywords_index, pc, call, process,
                   previous>>

\* get_answer returns on thread t
Answer(t) ==
    /\ requests[t].state = "matching"
    /\ requests' =
          [requests EXCEPT
              ![t] = [state |-> "answered",
                      question |-> requests[t].question,
                      language |-> requests[t].language,
                      outcome |-> get_answer(data, keywords_index,
                                             requests[t].question,
                                             requests[t].language).outcome]]
    /\ UNCHANGED <<fs, data, categories, keywords_index, pc, call, process,
                   previous>>

\* the response is sent; thread t takes the next request
Reply(t) ==
    /\ requests[t].state = "answered"
    /\ requests' = [requests EXCEPT ![t] = Idle]
    /\ UNCHANGED <<fs, data, categories, keywords_index, pc, call, process,
                   previous>>

\* the process ends, once load_data has run, and a new one is started; the
\* file stays as it is
Restart ==
    /\ pc \in {"build", "ready", "raised"}
    /\ previous' = [pc |-> pc, source |-> process.source, data |-> data,
                    categories |-> categories,
                    keywords_index |-> keywords_index]
    /\ pc' = "load"
    /\ data' = EmptyDict
    /\ categories' = <<>>
    /\ keywords_index' = EmptyDict
    /\ call' = NoCall
    /\ process' = NewProcess
    /\ requests' = [t \in Threads |-> Idle]
    /\ UNCHANGED fs

NextServer ==
    \/ LoadData
    \/ BuildSearchIndex
    \/ \E t \in Threads : Ask(t)
    \/ \E t \in Threads : Answer(t)
    \/ \E t \in Threads : Reply(t)
    \/ Restart

SpecServer == InitServer /\ [][NextServer]_vars

(***************************************************************************)
(* C17 - one load and one build, before any request                        *)
(***************************************************************************)
\* C17: a process runs load_data and build_search_index at most once each;
\* whenever a thread is inside ask_question, both have run exactly once
\* and have returned, and the index is the one built from the data
C17_BuiltOnceBeforeAnyRequest ==
    /\ process.loads <= 1
    /\ process.builds <= 1
    /\ \A t \in Threads :
          requests[t] # Idle =>
              /\ pc = "ready"
              /\ process.loads = 1
              /\ process.builds = 1
              /\ keywords_index = build_search_index(data).index

\* two requests are inside get_answer at the same time
C17_Witness ==
    /\ \A t \in Threads : requests[t].state = "matching"
    /\ DOMAIN keywords_index # {}
    /\ process.loads = 1
    /\ process.builds = 1

(***************************************************************************)
(* C18 - the default dataset is kept for the next process                  *)
(***************************************************************************)
\* the knowledge base of this process is the one the process before it had
SameAsPrevious ==
    /\ data = previous.data
    /\ categories = previous.categories
    /\ keywords_index = previous.keywords_index

PairOf(ref) == <<ref.category, ref.entry_id>>

\* the references of the buckets of the question's tokens, tokens left to
\* right and each bucket in its order
TokenRefs(question) ==
    LET words == split(normalize_text(question))
    IN Flatten([i \in 1..Len(words) |->
                   IF words[i] \in DOMAIN keywords_index
                   THEN keywords_index[words[i]] ELSE <<>>])

\* the elements of refs at the positions in keep, in order
AtPositions(refs, keep) ==
    [k \in 1..Cardinality(keep) |->
        refs[CHOOSE i \in keep : Cardinality({j \in keep : j <= i}) = k]]

\* refs without every reference whose pair was seen before
FirstSeenByPair(refs) ==
    AtPositions(refs,
        {i \in 1..Len(refs) :
            \A j \in 1..(i - 1) : PairOf(refs[j]) # PairOf(refs[i])})

\* refs without every reference that was seen before, pair and entry alike
FirstSeenByReference(refs) ==
    AtPositions(refs,
        {i \in 1..Len(refs) : \A j \in 1..(i - 1) : refs[j] # refs[i]})

\* get_answer went as far as search_entries, and a token of the question is
\* an index key
KeywordPassFound ==
    /\ Called
    /\ "search_entries" \in call.steps
    /\ IndexedWords(call.question) # {}

\* the answer returned is that of the first reference of the bucket of the
\* earliest token that is an index key
FirstTokenEntryAnswered ==
    LET words == split(normalize_text(call.question))
        first == keywords_index[words[SetMin(IndexedWords(call.question))]][1]
    IN /\ call.via = "entry"
       /\ ~call.found.fuzzy
       /\ call.found.matches[1] = first
       /\ "answer" \in DOMAIN first.entry =>
             call.outcome = Return(EntryAnswer(first.entry, call.language))

\* C21: the keyword pass collects the references of the tokens' buckets,
\* tokens left to right and buckets in order, first seen first and no
\* (category_id, entry_id) pair twice, and get_answer answers with the
\* first one collected
C21_KeywordPassFirstSeenByPair ==
    KeywordPassFound =>
        /\ call.found.keyword = FirstSeenByPair(TokenRefs(call.question))
        /\ FirstTokenEntryAnswered

\* what the keyword pass does satisfy: a reference is left out only when an
\* equal reference, entry content included, was collected before
KeywordPassFirstSeenByReference ==
    KeywordPassFound =>
        /\ call.found.keyword
             = FirstSeenByReference(TokenRefs(call.question))
        /\ FirstTokenEntryAnswered

(***************************************************************************)
(* C22 - the default that could not be written                             *)
(***************************************************************************)
\* load_data found no source and the write of the default failed: no file
\* was created, or the file is not a JSON document
DefaultNotWritten ==
    /\ pc # "load"
    /\ process.source = "absent"
    /\ fs.kind # "object"

\* C22: when the source is absent and the default cannot be written,
\* load_data does not raise and the knowledge base ends empty - no data,
\* not the default dataset, no categories, no index key - so that the
\* construction succeeds, is_loaded is false and every question gets the
\* not_found outcome (the apology, for want of a responses table)
C22_FailedWriteLeavesEmptyBase ==
    DefaultNotWritten =>
        /\ data = EmptyDict
        /\ data # DefaultData
        /\ categories = <<>>
        /\ keywords_index = EmptyDict
        /\ pc # "raised"
        /\ Called =>
              /\ call.outcome = Return(Apology)
              /\ call.via \in {"empty", "not_found"}
              /\ call.found.matches = <<>>
        /\ (pc = "queried" /\ call.op = "is_loaded") => ~call.result

\* a question of the built-in dataset, asked after a write of the default
\* that left a truncated file, got the apology
C22_Witness ==
    /\ DefaultNotWritten
    /\ fs.kind = "corrupt"
    /\ Called
    /\ call.question \in DefaultPhrases
    /\ call.outcome = Return(Apology)

====
